---------------------------- MODULE Spec2Model ----------------------------
(***************************************************************************)
(* Model of the standalone SOCI indexer: the registry client               *)
(* (utils/registry), the orchestrator indexAndPush (handler.go) and the    *)
(* reference parsing done by the entry point (main.go and its variants).   *)
(***************************************************************************)
EXTENDS Integers, Sequences, FiniteSets, TLC

VARIABLES
    remote,          \* the registry: what a manifest fetch of each reference answers
    pc,              \* position of the indexAndPush run
    client,          \* credentials installed on the registry handle by Init
    digests,         \* result of GetImageDigests
    resolveErr,      \* error of GetImageDigests
    fetches,         \* references fetched by GetManifest, in order
    dataDir,         \* the run's workspace directory ("" while none exists)
    deferred,        \* deferred calls registered by the run
    dirsCreated,     \* number of directories made by createTempDir
    removeAttempts,  \* number of os.RemoveAll calls made by cleanUp
    idx,             \* loop index into digests
    calls,           \* log of Pull / Build / Push invocations
    result,          \* (string, error) returned by indexAndPush
    desc,            \* the image reference string given on the command line
    parsed,          \* what the entry point made of desc
    ppc,             \* position of the entry point
    exitCode,        \* the process's exit status (-1 while it runs)
    initUrl,         \* registryUrl given to registry.Init
    initToken,       \* authToken given to registry.Init
    handle,          \* what registry.Init returned
    artifacts,       \* roots of the graphs copied into the target repository
    tagTarget,       \* what the target tag refers to in the repository
    pushLog,         \* log of the pushes: root, tag target before and after
    newTags,         \* values of the --new-tag flag
    pushTags,        \* the tags the entry point asks the index to be pushed under
    workers,         \* concurrent runs of indexAndPush: position and dataDir of each
    disk,            \* directories under the temp root: creator and writers of each
    removals         \* os.RemoveAll calls made: by which run, on whose directory

runVars == <<remote, pc, client, digests, resolveErr, fetches, dataDir, deferred,
             dirsCreated, removeAttempts, idx, calls, result,
             artifacts, tagTarget, pushLog>>
parseVars == <<desc, parsed, ppc>>
initVars == <<initUrl, initToken, handle>>
registryVars == <<artifacts, tagTarget, pushLog>>
entryVars == <<newTags, pushTags>>
concVars == <<workers, disk, removals>>
vars == <<remote, pc, client, digests, resolveErr, fetches, dataDir, deferred,
          dirsCreated, removeAttempts, idx, calls, result, desc, parsed, ppc,
          exitCode, initUrl, initToken, handle, artifacts, tagTarget, pushLog,
          newTags, pushTags, workers, disk, removals>>

---------------------------------------------------------------------------
\* Bounds of the model

MaxChildren == 2
MaxMsgLen == 3
MaxLen == 7

---------------------------------------------------------------------------
\* Errors: a Go error value has an identity (what == compares) and a message
\* (what Error() returns, here a sequence of message fragments).

Nil == [id |-> "nil", msg |-> <<>>]

NewError(id, msg) == [id |-> id, msg |-> msg]

\* s contains sub as a contiguous run (strings.Contains)
Contains(s, sub) ==
    \E i \in 0..(Len(s) - Len(sub)) :
        \A j \in 1..Len(sub) : s[i + j] = sub[j]

---------------------------------------------------------------------------
\* utils/registry: media types and distinguished errors

MediaTypeDockerManifestList == "application/vnd.docker.distribution.manifest.list.v2+json"
MediaTypeDockerManifest == "application/vnd.docker.distribution.manifest.v2+json"
MediaTypeOCIManifest == "application/vnd.oci.image.manifest.v1+json"
MediaTypeOCIIndexManifest == "application/vnd.oci.image.index.v1+json"
MediaTypeDockerImageConfig == "application/vnd.docker.container.image.v1+json"
MediaTypeOCIImageConfig == "application/vnd.oci.image.config.v1+json"

ImageConfigMediaTypes == <<MediaTypeDockerImageConfig, MediaTypeOCIImageConfig>>

RegistryNotSupportingOciArtifacts ==
    NewError("RegistryNotSupportingOciArtifacts", <<"Registry does not support OCI artifacts">>)

ImageAlreadyIndexed == NewError("ImageAlreadyIndexed", <<"Image already indexed">>)

\* the zero value of Manifest
ZeroManifest == [mediaType |-> "", config |-> "", manifests |-> <<>>]

\* A digest is algorithm and encoded part; internalDigest is their
\* "%s:%s" rendering, which is also the reference the registry is asked for.
FormatDigest(d) == <<d.alg, ":", d.enc>>

\* Errors of a manifest fetch, by what the registry answered
FetchError(outcome) == NewError(outcome, <<"GET manifest:", outcome>>)

\* Registry.GetManifest: Repository, FetchReference, ReadAll, Unmarshal
GetManifest(reg, ref) ==
    IF reg.fetch[ref] = "ok"
    THEN [manifest |-> reg.manifest[ref], err |-> Nil]
    ELSE [manifest |-> ZeroManifest, err |-> FetchError(reg.fetch[ref])]

\* the loop over ImageConfigMediaTypes
MutIsImageConfigMediaType_FirstOnly(mt, i) == mt = ImageConfigMediaTypes[1]

RECURSIVE IsImageConfigMediaType(_, _)
IsImageConfigMediaType(mt, i) ==
    IF i > Len(ImageConfigMediaTypes) THEN FALSE
    ELSE IF mt = ImageConfigMediaTypes[i] THEN TRUE
    ELSE IsImageConfigMediaType(mt, i + 1)

EmptyConfigError == NewError("EmptyConfigMediaType", <<"Empty config media type.">>)

UnexpectedConfigError(mt) ==
    NewError("UnexpectedConfigMediaType", <<"Unexpected config media type:", mt>>)

NoValidImagesError == NewError("NoValidImages", <<"Manifest contains no valid images.">>)

\* Registry.ValidateImageManifest
ValidateImageManifest(reg, ref) ==
    LET got == GetManifest(reg, ref) IN
    IF got.err # Nil THEN got.err
    ELSE IF got.manifest.config = "" THEN EmptyConfigError
    ELSE IF IsImageConfigMediaType(got.manifest.config, 1) THEN Nil
    ELSE UnexpectedConfigError(got.manifest.config)

\* whether the multi-arch loop looks at a child at all
ChildIsImageManifest(child) == child.mediaType = MediaTypeDockerManifest

\* the multi-arch loop of GetImageDigests: the digests appended and the
\* references fetched while validating, in order
RECURSIVE MutListDigests_Prepends(_, _)
MutListDigests_Prepends(reg, children) ==
    IF children = <<>> THEN [digests |-> <<>>, fetched |-> <<>>]
    ELSE LET child == Head(children)
             internalDigest == FormatDigest(child.digest)
             rest == MutListDigests_Prepends(reg, Tail(children))
         IN  IF ChildIsImageManifest(child)
             THEN IF ValidateImageManifest(reg, internalDigest) = Nil
                  THEN [digests |-> rest.digests \o <<internalDigest>>,
                        fetched |-> <<internalDigest>> \o rest.fetched]
                  ELSE [digests |-> rest.digests,
                        fetched |-> <<internalDigest>> \o rest.fetched]
             ELSE rest

RECURSIVE ListDigests(_, _)
ListDigests(reg, children) ==
    IF children = <<>> THEN [digests |-> <<>>, fetched |-> <<>>]
    ELSE LET child == Head(children)
             internalDigest == FormatDigest(child.digest)
             rest == ListDigests(reg, Tail(children))
         IN  IF ChildIsImageManifest(child)
             THEN IF ValidateImageManifest(reg, internalDigest) = Nil
                  THEN [digests |-> <<internalDigest>> \o rest.digests,
                        fetched |-> <<internalDigest>> \o rest.fetched]
                  ELSE [digests |-> rest.digests,
                        fetched |-> <<internalDigest>> \o rest.fetched]
             ELSE rest

\* the error of the multi-arch branch
MutListErr_NeverFails(ds) == Nil

ListErr(ds) == IF Len(ds) = 0 THEN NoValidImagesError ELSE Nil

\* the already-indexed test
MutIsAlreadyIndexed_Never(manifest) == FALSE

IsAlreadyIndexed(manifest) == manifest.mediaType = MediaTypeOCIIndexManifest

\* Registry.GetImageDigests
GetImageDigests(reg, digest) ==
    LET got == GetManifest(reg, digest)
        manifest == got.manifest
    IN  IF got.err # Nil
        THEN [digests |-> <<>>, err |-> got.err, fetched |-> <<digest>>]
        ELSE IF IsAlreadyIndexed(manifest)
        THEN [digests |-> <<>>, err |-> ImageAlreadyIndexed, fetched |-> <<digest>>]
        ELSE IF manifest.mediaType = MediaTypeDockerManifestList
        THEN LET l == ListDigests(reg, manifest.manifests) IN
             [digests |-> l.digests, err |-> ListErr(l.digests),
              fetched |-> <<digest>> \o l.fetched]
        ELSE IF manifest.config = ""
        THEN [digests |-> <<>>, err |-> EmptyConfigError, fetched |-> <<digest>>]
        ELSE IF IsImageConfigMediaType(manifest.config, 1)
        THEN [digests |-> <<digest>>, err |-> Nil, fetched |-> <<digest>>]
        ELSE [digests |-> <<>>, err |-> UnexpectedConfigError(manifest.config),
              fetched |-> <<digest>>]

---------------------------------------------------------------------------
\* The registry the run talks to

RootRef == <<"latest">>

ChildDigests == {[alg |-> "sha256", enc |-> "d1"], [alg |-> "sha256", enc |-> "d2"]}

ChildRefs == {FormatDigest(d) : d \in ChildDigests}

Refs == {RootRef} \cup ChildRefs

ConfigMediaTypes ==
    {MediaTypeDockerImageConfig, MediaTypeOCIImageConfig, "", "application/vnd.oci.empty.v1+json"}

RootMediaTypes ==
    {MediaTypeDockerManifestList, MediaTypeDockerManifest, MediaTypeOCIManifest,
     MediaTypeOCIIndexManifest, ""}

RootFailures == {"notfound", "unauthorized", "transport"}

ChildDescriptors ==
    [mediaType : {MediaTypeDockerManifest, MediaTypeOCIManifest}, digest : ChildDigests]

SeqsUpTo(S, n) == UNION {[1..k -> S] : k \in 0..n}

\* what the registry holds under a child digest: an image manifest, or a
\* failing fetch
ChildBlobs ==
    {[fetch |-> "ok", manifest |-> [mediaType |-> MediaTypeDockerManifest, config |-> c,
                                    manifests |-> <<>>]] : c \in ConfigMediaTypes}
    \cup {[fetch |-> "transport", manifest |-> ZeroManifest]}

\* a manifest enumerates children only when its media type is that of a
\* list or an index
ListMediaTypes == {MediaTypeDockerManifestList, MediaTypeOCIIndexManifest}

RootBlobs ==
    {[fetch |-> "ok", manifest |-> [mediaType |-> mt, config |-> c, manifests |-> ms]] :
        mt \in ListMediaTypes, c \in ConfigMediaTypes,
        ms \in SeqsUpTo(ChildDescriptors, MaxChildren)}
    \cup {[fetch |-> "ok", manifest |-> [mediaType |-> mt, config |-> c, manifests |-> <<>>]] :
        mt \in RootMediaTypes \ ListMediaTypes, c \in ConfigMediaTypes}
    \cup {[fetch |-> f, manifest |-> ZeroManifest] : f \in RootFailures}

\* a digest no manifest refers to is not in the registry
MissingBlob == [fetch |-> "notfound", manifest |-> ZeroManifest]

Referenced(root, ref) ==
    \E i \in DOMAIN root.manifest.manifests :
        FormatDigest(root.manifest.manifests[i].digest) = ref

MakeRemote(root, kids) ==
    [fetch |-> [r \in Refs |-> IF r = RootRef THEN root.fetch ELSE kids[r].fetch],
     manifest |-> [r \in Refs |-> IF r = RootRef THEN root.manifest ELSE kids[r].manifest]]

Remotes ==
    {MakeRemote(b[1], b[2]) :
        b \in {c \in RootBlobs \X [ChildRefs -> ChildBlobs \cup {MissingBlob}] :
                  \A r \in ChildRefs : Referenced(c[1], r) <=> c[2][r] # MissingBlob}}

---------------------------------------------------------------------------
\* utils/registry: Init, Pull, Push

\* authorizeEcr, by what the token exchange answered
authorizeEcr(ecrOut) ==
    IF ecrOut = "no config" THEN NewError("aws config", <<"failed to load AWS config">>)
    ELSE IF ecrOut = "call failed" THEN NewError("ecr call", <<"GetAuthorizationToken failed">>)
    ELSE IF ecrOut = "no data"
    THEN NewError("ecr empty data",
                  <<"Couldn't authorize with ECR: empty authorization data returned">>)
    ELSE IF ecrOut = "empty token"
    THEN NewError("ecr empty token",
                  <<"Couldn't authorize with ECR: empty authorization token returned">>)
    ELSE Nil

EcrOutcomes == {"no config", "call failed", "no data", "empty token", "token"}

AuthTokens == {"", "user:password"}

\* registry.Init: the credentials installed on the handle, or the error
MutRegistryInit_EcrFirst(urlOk, authToken, isEcr, ecrOut) ==
    IF ~urlOk
    THEN [client |-> "unset", exchange |-> "none",
          err |-> NewError("invalid reference", <<"invalid reference">>)]
    ELSE IF isEcr
    THEN IF authorizeEcr(ecrOut) # Nil
         THEN [client |-> "unset", exchange |-> ecrOut, err |-> authorizeEcr(ecrOut)]
         ELSE [client |-> "Basic ecrAuthorizationToken", exchange |-> ecrOut, err |-> Nil]
    ELSE IF authToken # ""
    THEN [client |-> "Basic base64(authToken)", exchange |-> "none", err |-> Nil]
    ELSE [client |-> "anonymous", exchange |-> "none", err |-> Nil]

RegistryInit(urlOk, authToken, isEcr, ecrOut) ==
    IF ~urlOk
    THEN [client |-> "unset", exchange |-> "none",
          err |-> NewError("invalid reference", <<"invalid reference">>)]
    ELSE IF authToken # ""
    THEN [client |-> "Basic base64(authToken)", exchange |-> "none", err |-> Nil]
    ELSE IF isEcr
    THEN IF authorizeEcr(ecrOut) # Nil
         THEN [client |-> "unset", exchange |-> ecrOut, err |-> authorizeEcr(ecrOut)]
         ELSE [client |-> "Basic ecrAuthorizationToken", exchange |-> ecrOut, err |-> Nil]
    ELSE [client |-> "anonymous", exchange |-> "none", err |-> Nil]

\* Registry.Pull: Repository, then oras.Copy
Pull(repoErr, copyErr) ==
    IF repoErr # Nil THEN repoErr
    ELSE IF copyErr # Nil THEN copyErr
    ELSE Nil

\* the registry's rejection of an OCI image manifest as the root of a push,
\* as the two halves of the message Push looks for
RejectHead == "Response status code 405: unsupported: Invalid parameter at 'ImageManifest'"
RejectTail == "failed to satisfy constraint: 'Invalid JSON syntax'"
RejectPattern == <<RejectHead, RejectTail>>

\* Registry.Push: Repository, then oras.CopyGraph and the translation of
\* its error
MutPush_ReturnsNil(repoErr, copyErr) == Nil

MutPush_NoTranslation(repoErr, copyErr) ==
    IF repoErr # Nil THEN repoErr
    ELSE IF copyErr # Nil THEN copyErr
    ELSE Nil

Push(repoErr, copyErr) ==
    IF repoErr # Nil THEN repoErr
    ELSE IF copyErr # Nil
    THEN IF Contains(copyErr.msg, RejectPattern)
         THEN RegistryNotSupportingOciArtifacts
         ELSE copyErr
    ELSE Nil

\* Registry.Tag: Repository, then repo.Tag and the wrapping of its error
RegistryTag(repoErr, tagErr) ==
    IF repoErr # Nil THEN repoErr
    ELSE IF tagErr # Nil
    THEN NewError("tag failed", <<"failed to tag artifact:">> \o tagErr.msg)
    ELSE Nil

\* repo.Tag: what the tag refers to afterwards
MutRetag_KeepsFirst(target, root) == IF Head(target) = "image" THEN root ELSE target

Retag(target, root) == root

\* registry.Push with a tag, as the orchestrator calls it: the graph copy,
\* then the tagging of the pushed root; Repository answers the same for the
\* same repository name in both
PushAndTag(repoErr, copyErr, tagErr) ==
    LET e == Push(repoErr, copyErr)
        copied == repoErr = Nil /\ copyErr = Nil
    IN  IF e # Nil THEN [err |-> e, copied |-> copied, tagged |-> FALSE]
        ELSE LET t == RegistryTag(repoErr, tagErr) IN
             [err |-> t, copied |-> copied, tagged |-> t = Nil]

\* what the collaborators can answer
TagErrors == {Nil, NewError("tag", <<"PUT manifest:", "denied">>)}

RepositoryErrors == {Nil, NewError("invalid repository", <<"invalid reference">>)}

PullCopyErrors == {Nil, NewError("transport", <<"GET blob:", "connection reset">>)}

PushFragments == {RejectHead, RejectTail, "PUT manifest:"}

PushCopyErrors ==
    {Nil} \cup {NewError("transport", m) :
                  m \in UNION {[1..k -> PushFragments] : k \in 1..MaxMsgLen}}

---------------------------------------------------------------------------
\* handler.go: the orchestrator

ErrEmptyIndex ==
    NewError("main.ErrEmptyIndex",
             <<"no ztocs created, all layers either skipped or produced errors">>)

BuildFailedMessage == "SOCI index build error"
PushFailedMessage == "SOCI index push error"
SkipPushOnEmptyIndexMessage == "Skipping pushing SOCI index as it does not contain any zTOCs"
BuildAndPushSuccessMessage == "Successfully built and pushed SOCI index"
ManifestValidationMessage == "Exited early due to manifest validation error"

\* what buildIndex can answer: a descriptor (Nil), the SOCI library's own
\* empty-index error, the same error wrapped, or another failure
BuildErrors ==
    {Nil,
     NewError("soci.ErrEmptyIndex", ErrEmptyIndex.msg),
     NewError("wrapped", <<"convert:">> \o ErrEmptyIndex.msg),
     NewError("artifacts db", <<"open artifacts.db:", "permission denied">>)}

MkdirErrors == {Nil, NewError("mkdir", <<"mkdir /tmp/soci:", "no space left on device">>)}

StoreErrors == {Nil, NewError("oci store", <<"invalid OCI Image Layout">>)}

TempDir == "/tmp/soci1"

\* cleanUp: one os.RemoveAll, whose failure is only logged
cleanUp(dir, rmOk) == IF rmOk THEN "" ELSE dir

\* the function returns: the deferred calls run, then the caller has the
\* result
MutReturn_SkipsDeferred(msg, err) ==
    /\ result' = [msg |-> msg, err |-> err]
    /\ pc' = "Returned"
    /\ UNCHANGED <<removeAttempts, dataDir, deferred>>

Return(msg, err) ==
    /\ result' = [msg |-> msg, err |-> err]
    /\ pc' = "Returned"
    /\ IF deferred = <<>>
       THEN UNCHANGED <<removeAttempts, dataDir, deferred>>
       ELSE \E rmOk \in BOOLEAN :
               /\ removeAttempts' = removeAttempts + Len(deferred)
               /\ dataDir' = cleanUp(Head(deferred), rmOk)
               /\ deferred' = <<>>

\* logAndReturnError: log, then return the message and the error
MutLogAndReturnError_DropsError(msg, err) == Return(msg, Nil)

logAndReturnError(msg, err) == Return(msg, err)

\* the branch taken when GetImageDigests fails
MutResolveFailed_Propagates(err) == logAndReturnError(ManifestValidationMessage, err)

ResolveFailed(err) == Return(ManifestValidationMessage, Nil)

\* the test for the empty-index condition
MutIsEmptyIndexError_ByIdentity(err) == err = ErrEmptyIndex

MutIsEmptyIndexError_AnyError(err) == TRUE

IsEmptyIndexError(err) == err.msg = ErrEmptyIndex.msg

\* what the target tag refers to before the run pushes anything
PriorTarget == <<"image">>

\* the descriptor of the index that buildIndex made for a digest
IndexArtifact(digest) == <<"soci index of">> \o digest

Call(op, raw, err) == [op |-> op, digest |-> digests[idx], raw |-> raw, err |-> err]

\* registryutils.Init and its error branch
InitStep ==
    /\ pc = "Init"
    /\ \E urlOk \in BOOLEAN, authToken \in AuthTokens, isEcr \in BOOLEAN,
          ecrOut \in EcrOutcomes :
          LET r == RegistryInit(urlOk, authToken, isEcr, ecrOut) IN
          IF r.err # Nil
          THEN /\ logAndReturnError("Remote registry initialization error", r.err)
               /\ UNCHANGED client
          ELSE /\ client' = r.client
               /\ pc' = "Resolve"
               /\ UNCHANGED <<result, removeAttempts, dataDir, deferred>>
    /\ UNCHANGED <<remote, digests, resolveErr, fetches, idx, calls>>
    /\ UNCHANGED <<dirsCreated, parseVars, exitCode, initVars, registryVars, entryVars, concVars>>

\* registry.GetImageDigests and its error branch
ResolveStep ==
    /\ pc = "Resolve"
    /\ LET r == GetImageDigests(remote, RootRef) IN
          /\ digests' = r.digests
          /\ resolveErr' = r.err
          /\ fetches' = fetches \o r.fetched
          /\ IF r.err # Nil
             THEN ResolveFailed(r.err)
             ELSE /\ pc' = "CreateTempDir"
                  /\ UNCHANGED <<result, removeAttempts, dataDir, deferred>>
    /\ UNCHANGED <<remote, client, idx, calls>>
    /\ UNCHANGED <<dirsCreated, parseVars, exitCode, initVars, registryVars, entryVars, concVars>>

\* createTempDir, its error branch, and defer cleanUp
CreateTempDirStep ==
    /\ pc = "CreateTempDir"
    /\ \E err \in MkdirErrors :
          IF err # Nil
          THEN /\ logAndReturnError("Directory create error", err)
               /\ UNCHANGED dirsCreated
          ELSE /\ dataDir' = TempDir
               /\ dirsCreated' = dirsCreated + 1
               /\ deferred' = <<TempDir>> \o deferred
               /\ pc' = "InitSociStore"
               /\ UNCHANGED <<result, removeAttempts>>
    /\ UNCHANGED <<remote, client, digests, resolveErr, fetches, idx, calls>>
    /\ UNCHANGED <<parseVars, exitCode, initVars, registryVars, entryVars, concVars>>

\* initSociStore, its error branch, and the entry of the loop over digests
InitSociStoreStep ==
    /\ pc = "InitSociStore"
    /\ \E err \in StoreErrors :
          IF err # Nil
          THEN /\ logAndReturnError("OCI storage initialization error", err)
               /\ UNCHANGED idx
          ELSE IF digests = <<>>
          THEN /\ Return(BuildAndPushSuccessMessage, Nil)
               /\ UNCHANGED idx
          ELSE /\ pc' = "Pull"
               /\ idx' = 1
               /\ UNCHANGED <<result, removeAttempts, dataDir, deferred>>
    /\ UNCHANGED <<remote, client, digests, resolveErr, fetches, calls>>
    /\ UNCHANGED <<dirsCreated, parseVars, exitCode, initVars, registryVars, entryVars, concVars>>

\* registry.Pull of the current digest and its error branch
MutPullStep_BuildsAnyway ==
    /\ pc = "Pull"
    /\ \E repoErr \in RepositoryErrors, copyErr \in PullCopyErrors :
          calls' = Append(calls, Call("Pull", copyErr, Pull(repoErr, copyErr)))
    /\ pc' = "Build"
    /\ UNCHANGED <<result, removeAttempts, dataDir, deferred>>
    /\ UNCHANGED <<remote, client, digests, resolveErr, fetches, idx>>
    /\ UNCHANGED <<dirsCreated, parseVars, exitCode, initVars, registryVars, entryVars, concVars>>

PullStep ==
    /\ pc = "Pull"
    /\ \E repoErr \in RepositoryErrors, copyErr \in PullCopyErrors :
          LET err == Pull(repoErr, copyErr) IN
          /\ calls' = Append(calls, Call("Pull", copyErr, err))
          /\ IF err # Nil
             THEN logAndReturnError("Image pull error", err)
             ELSE /\ pc' = "Build"
                  /\ UNCHANGED <<result, removeAttempts, dataDir, deferred>>
    /\ UNCHANGED <<remote, client, digests, resolveErr, fetches, idx>>
    /\ UNCHANGED <<dirsCreated, parseVars, exitCode, initVars, registryVars, entryVars, concVars>>

\* buildIndex of the pulled image and its error branches
BuildStep ==
    /\ pc = "Build"
    /\ \E err \in BuildErrors :
          /\ calls' = Append(calls, Call("Build", err, err))
          /\ IF err # Nil
             THEN IF IsEmptyIndexError(err)
                  THEN Return(SkipPushOnEmptyIndexMessage, Nil)
                  ELSE logAndReturnError(BuildFailedMessage, err)
             ELSE /\ pc' = "Push"
                  /\ UNCHANGED <<result, removeAttempts, dataDir, deferred>>
    /\ UNCHANGED <<remote, client, digests, resolveErr, fetches, idx>>
    /\ UNCHANGED <<dirsCreated, parseVars, exitCode, initVars, registryVars, entryVars, concVars>>

\* registry.Push of the built index, its error branch, and the next
\* iteration or the return after the last one
MutPushStep_ReturnsAfterFirst ==
    /\ pc = "Push"
    /\ \E repoErr \in RepositoryErrors :
       \E copyErr \in IF repoErr = Nil THEN PushCopyErrors ELSE {Nil} :
       \E tagErr \in IF copyErr = Nil THEN TagErrors ELSE {Nil} :
          LET r == PushAndTag(repoErr, copyErr, tagErr)
              err == r.err
              root == IndexArtifact(digests[idx])
              after == IF r.tagged THEN Retag(tagTarget, root) ELSE tagTarget
          IN
          /\ calls' = Append(calls, Call("Push", IF repoErr = Nil THEN copyErr ELSE Nil, err))
          /\ artifacts' = IF r.copied THEN artifacts \cup {root} ELSE artifacts
          /\ tagTarget' = after
          /\ pushLog' = Append(pushLog, [root |-> root, before |-> tagTarget,
                                         after |-> after, copied |-> r.copied,
                                         err |-> err])
          /\ IF err # Nil
             THEN logAndReturnError(PushFailedMessage, err)
             ELSE Return(BuildAndPushSuccessMessage, Nil)
    /\ UNCHANGED <<remote, client, digests, resolveErr, fetches, idx>>
    /\ UNCHANGED <<dirsCreated, parseVars, exitCode, initVars, entryVars, concVars>>

PushStep ==
    /\ pc = "Push"
    /\ \E repoErr \in RepositoryErrors :
       \E copyErr \in IF repoErr = Nil THEN PushCopyErrors ELSE {Nil} :
       \E tagErr \in IF copyErr = Nil THEN TagErrors ELSE {Nil} :
          LET r == PushAndTag(repoErr, copyErr, tagErr)
              err == r.err
              root == IndexArtifact(digests[idx])
              after == IF r.tagged THEN Retag(tagTarget, root) ELSE tagTarget
          IN
          /\ calls' = Append(calls, Call("Push", IF repoErr = Nil THEN copyErr ELSE Nil, err))
          /\ artifacts' = IF r.copied THEN artifacts \cup {root} ELSE artifacts
          /\ tagTarget' = after
          /\ pushLog' = Append(pushLog, [root |-> root, before |-> tagTarget,
                                         after |-> after, copied |-> r.copied,
                                         err |-> err])
          /\ IF err # Nil
             THEN /\ logAndReturnError(PushFailedMessage, err)
                  /\ UNCHANGED idx
             ELSE IF idx < Len(digests)
             THEN /\ idx' = idx + 1
                  /\ pc' = "Pull"
                  /\ UNCHANGED <<result, removeAttempts, dataDir, deferred>>
             ELSE /\ Return(BuildAndPushSuccessMessage, Nil)
                  /\ UNCHANGED idx
    /\ UNCHANGED <<remote, client, digests, resolveErr, fetches>>
    /\ UNCHANGED <<dirsCreated, parseVars, exitCode, initVars, entryVars, concVars>>

NoParse == [repo |-> <<>>, tag |-> <<>>, registry |-> <<>>, err |-> Nil]

\* registry.Init has not returned
NoHandle ==
    [client |-> "unset", exchange |-> "none", err |-> Nil, returned |-> FALSE,
     urlOk |-> FALSE]

Init ==
    /\ remote \in Remotes
    /\ pc = "Init"
    /\ client = "unset"
    /\ digests = <<>>
    /\ resolveErr = Nil
    /\ fetches = <<>>
    /\ dataDir = ""
    /\ deferred = <<>>
    /\ dirsCreated = 0
    /\ removeAttempts = 0
    /\ idx = 0
    /\ calls = <<>>
    /\ result = [msg |-> "", err |-> Nil]
    /\ desc = <<>>
    /\ parsed = NoParse
    /\ ppc = "idle"
    /\ exitCode = -1
    /\ initUrl = <<>>
    /\ initToken = ""
    /\ handle = NoHandle
    /\ artifacts = {}
    /\ tagTarget = PriorTarget
    /\ pushLog = <<>>
    /\ newTags = <<>>
    /\ pushTags = <<>>
    /\ workers = <<>>
    /\ disk = <<>>
    /\ removals = {}

Next ==
    \/ InitStep
    \/ ResolveStep
    \/ CreateTempDirStep
    \/ InitSociStoreStep
    \/ PullStep
    \/ BuildStep
    \/ PushStep

Spec == Init /\ [][Next]_vars

---------------------------------------------------------------------------
\* Properties of the orchestrator and of manifest resolution

\* the run's log entry i records a Build that reported the empty-index
\* condition
BuildReportedEmpty(i) ==
    /\ calls[i].op = "Build"
    /\ calls[i].err # Nil
    /\ calls[i].err.msg = ErrEmptyIndex.msg

\* C1: when Build reports the empty-index condition for a digest, no Push is
\* invoked for that digest nor for any later one, and the run returns the
\* skip message with a nil error.
C1_NoPushAfterEmptyIndex ==
    \A i \in DOMAIN calls :
        BuildReportedEmpty(i) =>
            /\ \A j \in DOMAIN calls : j > i => calls[j].op # "Push"
            /\ i = Len(calls)
            /\ pc = "Returned"
            /\ result = [msg |-> SkipPushOnEmptyIndexMessage, err |-> Nil]

\* the second digest's Build reported the empty index, after the first
\* digest was pushed
C1_Witness ==
    /\ Len(calls) = 5
    /\ BuildReportedEmpty(5)
    /\ calls[5].err.id = "soci.ErrEmptyIndex"
    /\ calls[3].op = "Push"

\* C2 as stated: whatever stage fails, or none, removal of the workspace is
\* attempted exactly once before the run returns.
C2_RemovalOnceInEveryRun ==
    pc = "Returned" => removeAttempts = 1

MessagesBeforeWorkspace ==
    {"Remote registry initialization error", ManifestValidationMessage,
     "Directory create error"}

MessagesAfterWorkspace ==
    {"OCI storage initialization error", "Image pull error", BuildFailedMessage,
     PushFailedMessage, SkipPushOnEmptyIndexMessage, BuildAndPushSuccessMessage}

\* C2 (amended): a run that created its workspace attempts the removal
\* exactly once, on return, whichever later stage failed (store init, Pull,
\* Build, Push) or none; a run that returned before creating a workspace
\* (Init failure, Resolve failure, directory creation failure) attempts no
\* removal; no removal is attempted before the run returns.
C2_RemovalOncePerCreatedWorkspace ==
    /\ dirsCreated <= 1
    /\ pc # "Returned" => removeAttempts = 0
    /\ pc = "Returned" =>
          /\ removeAttempts = dirsCreated
          /\ result.msg \in MessagesAfterWorkspace => removeAttempts = 1
          /\ result.msg \in MessagesBeforeWorkspace => removeAttempts = 0

\* a run whose Push failed has returned, with its workspace removal
\* attempted
C2_Witness ==
    /\ pc = "Returned"
    /\ result.msg = PushFailedMessage
    /\ dirsCreated = 1
    /\ removeAttempts = 1

\* every digest of the DigestSet went through Pull, Build and Push without
\* error, in order
AllBuiltAndPushed ==
    /\ Len(digests) > 0
    /\ Len(calls) = 3 * Len(digests)
    /\ \A k \in 1..Len(digests) :
          /\ calls[3 * k - 2] = [op |-> "Pull", digest |-> digests[k], raw |-> Nil, err |-> Nil]
          /\ calls[3 * k - 1] = [op |-> "Build", digest |-> digests[k], raw |-> Nil, err |-> Nil]
          /\ calls[3 * k] = [op |-> "Push", digest |-> digests[k], raw |-> Nil, err |-> Nil]

\* the manifest cannot be indexed, or is not there
NotIndexableIds ==
    {"ImageAlreadyIndexed", "NoValidImages", "EmptyConfigMediaType",
     "UnexpectedConfigMediaType", "notfound"}

\* the registry refused the credentials, or the connection failed
FatalFetchIds == {"unauthorized", "transport"}

\* C3 as stated: a nil error is returned only when every digest was built
\* and pushed or the run ended in a precondition skip; an authentication or
\* transport failure, the manifest fetch of Resolve included, is never
\* reported with a nil error.
C3_NoFatalConditionSwallowed ==
    (pc = "Returned" /\ result.err = Nil) =>
        /\ \/ AllBuiltAndPushed
           \/ resolveErr.id \in NotIndexableIds
           \/ (calls # <<>> /\ BuildReportedEmpty(Len(calls)))
        /\ resolveErr.id \notin FatalFetchIds

\* C4: when GetImageDigests fails because the manifest is not indexable or
\* not found, the run returns a status string with a nil error and no Pull,
\* Build or Push is invoked in it.
C4_NotIndexableIsSkipped ==
    resolveErr.id \in NotIndexableIds =>
        /\ pc = "Returned"
        /\ result = [msg |-> ManifestValidationMessage, err |-> Nil]
        /\ calls = <<>>

\* Resolve found a manifest list without a valid image and the run returned
C4_Witness ==
    /\ pc = "Returned"
    /\ resolveErr = NoValidImagesError
    /\ Len(remote.manifest[RootRef].manifests) = 2

\* C5: an Init failure, a Pull failure, a Build failure other than the
\* empty index, or a Push failure makes the run return a non-nil error, and
\* nothing is pulled, built or pushed after the first such failure.
C5_FailuresAreFatal ==
    /\ (pc = "Returned" /\ client = "unset") => (result.err # Nil /\ calls = <<>>)
    /\ \A i \in DOMAIN calls :
          (calls[i].err # Nil /\ ~BuildReportedEmpty(i)) =>
              /\ i = Len(calls)
              /\ pc = "Returned"
              /\ result.err # Nil
              /\ result.err = calls[i].err

\* the Pull of the second digest failed
C5_Witness ==
    /\ Len(calls) = 4
    /\ calls[4].op = "Pull"
    /\ calls[4].err # Nil

\* GetImageDigests has run
Resolved == fetches # <<>>

RootManifest == remote.manifest[RootRef]

\* child i of the root manifest is there and has a recognized config media
\* type
ChildHasImageConfig(i) ==
    LET ref == FormatDigest(RootManifest.manifests[i].digest) IN
    /\ remote.fetch[ref] = "ok"
    /\ remote.manifest[ref].config \in {MediaTypeDockerImageConfig, MediaTypeOCIImageConfig}

\* C6: a manifest list without a valid child yields an error, never success
\* with an empty DigestSet; whenever GetImageDigests returns no error the
\* DigestSet is not empty.
C6_NoEmptySuccess ==
    Resolved =>
        /\ resolveErr = Nil => Len(digests) > 0
        /\ (/\ remote.fetch[RootRef] = "ok"
            /\ RootManifest.mediaType = MediaTypeDockerManifestList
            /\ \A i \in DOMAIN RootManifest.manifests : ~ChildHasImageConfig(i))
           => (resolveErr = NoValidImagesError /\ digests = <<>>)

\* a manifest list with two children, neither valid, was resolved
C6_Witness ==
    /\ Resolved
    /\ RootManifest.mediaType = MediaTypeDockerManifestList
    /\ Len(RootManifest.manifests) = 2
    /\ \A i \in DOMAIN RootManifest.manifests : ~ChildHasImageConfig(i)

\* C7: a manifest of the OCI index media type always yields
\* ImageAlreadyIndexed, whatever its config and children, and no child
\* manifest is fetched.
C7_IndexAlreadyIndexed ==
    (/\ Resolved
     /\ remote.fetch[RootRef] = "ok"
     /\ RootManifest.mediaType = MediaTypeOCIIndexManifest)
    => (/\ resolveErr = ImageAlreadyIndexed
        /\ digests = <<>>
        /\ fetches = <<RootRef>>)

\* an OCI index with a valid config and a valid Docker child was resolved
C7_Witness ==
    /\ Resolved
    /\ RootManifest.mediaType = MediaTypeOCIIndexManifest
    /\ RootManifest.config = MediaTypeOCIImageConfig
    /\ Len(RootManifest.manifests) >= 1
    /\ RootManifest.manifests[1].mediaType = MediaTypeDockerManifest
    /\ ChildHasImageConfig(1)

\* the message carries the registry's rejection of the image manifest
IsRejection(msg) ==
    \E k \in 1..(Len(msg) - 1) : msg[k] = RejectHead /\ msg[k + 1] = RejectTail

\* C8: when the graph copy of a push is rejected with the
\* OCI-image-manifest-root response, Push returns
\* RegistryNotSupportingOciArtifacts and indexAndPush returns that same
\* error; any other copy failure is returned as it is.
C8_CapabilityErrorSurfaced ==
    \A i \in DOMAIN calls :
        (calls[i].op = "Push" /\ calls[i].raw # Nil) =>
            /\ calls[i].err = IF IsRejection(calls[i].raw.msg)
                              THEN RegistryNotSupportingOciArtifacts
                              ELSE calls[i].raw
            /\ pc = "Returned"
            /\ result = [msg |-> PushFailedMessage, err |-> calls[i].err]

\* a push was rejected, the rejection being part of a longer message
C8_Witness ==
    /\ calls # <<>>
    /\ calls[Len(calls)].op = "Push"
    /\ calls[Len(calls)].raw # Nil
    /\ Len(calls[Len(calls)].raw.msg) = 3
    /\ IsRejection(calls[Len(calls)].raw.msg)
    /\ result.err = RegistryNotSupportingOciArtifacts

---------------------------------------------------------------------------
\* The entry point's parsing of the image reference.  A reference is a
\* sequence of characters; "a" stands for any letter or digit.

Alphabet == {"a", ".", ":", "/", "@"}

Descs == UNION {[1..k -> Alphabet] : k \in 0..MaxLen}

\* strings.Index: the first position of c in s, 0 when there is none
IndexOf(s, c) ==
    IF \E i \in DOMAIN s : s[i] = c
    THEN CHOOSE i \in DOMAIN s : s[i] = c /\ \A j \in 1..(i - 1) : s[j] # c
    ELSE 0

\* strings.LastIndex
LastIndexOf(s, c) ==
    IF \E i \in DOMAIN s : s[i] = c
    THEN CHOOSE i \in DOMAIN s : s[i] = c /\ \A j \in (i + 1)..Len(s) : s[j] # c
    ELSE 0

\* strings.SplitN(s, sep, 2)
SplitN2(s, sep) ==
    IF IndexOf(s, sep) = 0 THEN <<s>>
    ELSE <<SubSeq(s, 1, IndexOf(s, sep) - 1), SubSeq(s, IndexOf(s, sep) + 1, Len(s))>>

DockerIo == <<"docker.io">>

Latest == <<"latest">>

ParseError == NewError("ParseError", <<"invalid reference format">>)

\* a segment that names a host
IsHost(seg) == \E i \in DOMAIN seg : seg[i] \in {".", ":"}

\* a repository path: letters and digits, separated by single "." or "/"
ValidName(name) ==
    /\ name # <<>>
    /\ \A i \in DOMAIN name : name[i] \in {"a", ".", "/"}
    /\ name[1] = "a"
    /\ name[Len(name)] = "a"
    /\ \A i \in 1..(Len(name) - 1) : name[i] = "a" \/ name[i + 1] = "a"

\* a tag: a letter or digit, then letters, digits and "."
ValidTag(t) ==
    /\ t # <<>>
    /\ t[1] = "a"
    /\ \A i \in DOMAIN t : t[i] \in {"a", "."}

\* a digest: algorithm ":" hex
ValidDigest(d) ==
    LET k == IndexOf(d, ":") IN
    /\ k > 1
    /\ k < Len(d)
    /\ \A i \in DOMAIN d : i # k => d[i] = "a"

\* parser.Parse of github.com/novln/docker-parser, by the rules the
\* reference parser is specified with
Parse(s) ==
    LET i == IndexOf(s, "/")
        hasHost == i > 0 /\ IsHost(SubSeq(s, 1, i - 1))
        registry == IF hasHost THEN SubSeq(s, 1, i - 1) ELSE DockerIo
        rest == IF hasHost THEN SubSeq(s, i + 1, Len(s)) ELSE s
        at == IndexOf(rest, "@")
        colon == LastIndexOf(rest, ":")
        name == IF at > 0 THEN SubSeq(rest, 1, at - 1)
                ELSE IF colon > 0 THEN SubSeq(rest, 1, colon - 1)
                ELSE rest
        suffix == IF at > 0 THEN SubSeq(rest, at + 1, Len(rest))
                  ELSE IF colon > 0 THEN SubSeq(rest, colon + 1, Len(rest))
                  ELSE Latest
        ok == /\ ValidName(name)
              /\ at > 0 => ValidDigest(suffix)
              /\ (at = 0 /\ colon > 0) => ValidTag(suffix)
    IN  IF ok
        THEN [registry |-> registry, shortName |-> name, tag |-> suffix, err |-> Nil]
        ELSE [registry |-> <<>>, shortName |-> <<>>, tag |-> <<>>, err |-> ParseError]

ShortName(ref) == ref.shortName

Tag(ref) == ref.tag

Registry(ref) == ref.registry

\* the entry point's own splitting of its argument on "/" and ":"
SplitImageDesc(s) ==
    LET bySlash == SplitN2(s, "/")
        registry == IF Len(bySlash) = 1 THEN DockerIo ELSE bySlash[1]
        rest == IF Len(bySlash) = 1 THEN bySlash[1] ELSE bySlash[2]
        byColon == SplitN2(rest, ":")
    IN  [repo |-> byColon[1],
         tag |-> IF Len(byColon) = 1 THEN Latest ELSE byColon[2],
         registry |-> registry,
         err |-> Nil]

\* parseImageDesc
MutParseImageDesc_SplitsByHand(s) == SplitImageDesc(s)

parseImageDesc(s) ==
    LET ref == Parse(s) IN
    IF ref.err # Nil
    THEN [repo |-> <<>>, tag |-> <<>>, registry |-> <<>>, err |-> ref.err]
    ELSE [repo |-> ShortName(ref), tag |-> Tag(ref), registry |-> Registry(ref),
          err |-> Nil]

\* main, the variant that calls parseImageDesc
ParseStep ==
    /\ ppc = "start"
    /\ parsed' = parseImageDesc(desc)
    /\ ppc' = "parsed"
    /\ UNCHANGED <<desc, runVars, exitCode, initVars, entryVars, concVars>>

\* main, the variant that splits the argument itself
SplitStep ==
    /\ ppc = "start"
    /\ parsed' = SplitImageDesc(desc)
    /\ ppc' = "split"
    /\ UNCHANGED <<desc, runVars, exitCode, initVars, entryVars, concVars>>

\* the process has its argument; indexAndPush has not been called
InitParse ==
    /\ desc \in Descs
    /\ parsed = NoParse
    /\ ppc = "start"
    /\ remote = MakeRemote(MissingBlob, [r \in ChildRefs |-> MissingBlob])
    /\ pc = "NotCalled"
    /\ client = "unset"
    /\ digests = <<>>
    /\ resolveErr = Nil
    /\ fetches = <<>>
    /\ dataDir = ""
    /\ deferred = <<>>
    /\ dirsCreated = 0
    /\ removeAttempts = 0
    /\ idx = 0
    /\ calls = <<>>
    /\ result = [msg |-> "", err |-> Nil]
    /\ exitCode = -1
    /\ initUrl = <<>>
    /\ initToken = ""
    /\ handle = NoHandle
    /\ artifacts = {}
    /\ tagTarget = PriorTarget
    /\ pushLog = <<>>
    /\ newTags = <<>>
    /\ pushTags = <<>>
    /\ workers = <<>>
    /\ disk = <<>>
    /\ removals = {}

NextParse ==
    \/ ParseStep
    \/ SplitStep

SpecParse == InitParse /\ [][NextParse]_vars

---------------------------------------------------------------------------
\* Properties of the parsing

\* the segment of desc left of its first "/", and what follows that "/"
LeftSegment == SubSeq(desc, 1, IndexOf(desc, "/") - 1)

Remainder == SubSeq(desc, IndexOf(desc, "/") + 1, Len(desc))

IsPrefix(p, s) == Len(p) <= Len(s) /\ SubSeq(s, 1, Len(p)) = p

\* s is a reference: [host/]repository[:tag|@digest]
WellFormed(s) == Parse(s).err = Nil

\* what the claim of C9 asks of a parse of desc
RegistryRule(p) ==
    IF IndexOf(desc, "/") = 0
    THEN p.registry = DockerIo
    ELSE IF ~IsHost(LeftSegment)
    THEN /\ p.registry = DockerIo
         /\ IsPrefix(LeftSegment \o <<"/">>, p.repo)
         /\ IsPrefix(p.repo, desc)
    ELSE /\ p.registry = LeftSegment
         /\ IsPrefix(p.repo, Remainder)

\* C9 as stated: the registry is "docker.io" when the segment left of the
\* first "/" is not a host, and then the repository keeps that segment;
\* otherwise the left segment is the registry and the remainder the
\* repository.
C9_RegistryDefaulting ==
    (ppc \in {"parsed", "split"} /\ parsed.err = Nil /\ WellFormed(desc))
        => RegistryRule(parsed)

\* desc ends in "@" algorithm ":" hex
HasDigestSuffix ==
    /\ IndexOf(desc, "@") > 0
    /\ ValidDigest(SubSeq(desc, IndexOf(desc, "@") + 1, Len(desc)))

DigestSuffix == SubSeq(desc, IndexOf(desc, "@") + 1, Len(desc))

\* C10: parsing a reference with a trailing @algorithm:hex returns the
\* exact digest string as tagOrDigest and a repository without the "@"
\* suffix; the result is never a tag made of the hex part alone.
C10_DigestPreserved ==
    (ppc = "parsed" /\ parsed.err = Nil /\ HasDigestSuffix) =>
        /\ parsed.tag = DigestSuffix
        /\ \A i \in DOMAIN parsed.repo : parsed.repo[i] # "@"
        /\ IsPrefix(parsed.repo \o <<"@">>,
                    IF parsed.registry = DockerIo THEN desc ELSE Remainder)
        /\ parsed.tag # SubSeq(DigestSuffix, IndexOf(DigestSuffix, ":") + 1,
                               Len(DigestSuffix))

\* a reference with a host, a repository and a digest was parsed
C10_Witness ==
    /\ ppc = "parsed"
    /\ parsed.err = Nil
    /\ HasDigestSuffix
    /\ parsed.registry # DockerIo
    /\ parsed.tag = <<"a", ":", "a">>

\* the part of desc that holds repository and suffix: what follows the host
\* when the left segment names one, all of desc otherwise
NamePart ==
    IF IndexOf(desc, "/") > 0 /\ IsHost(LeftSegment) THEN Remainder ELSE desc

\* desc carries neither a ":tag" nor an "@digest"
HasNoSuffix == \A i \in DOMAIN NamePart : NamePart[i] \notin {":", "@"}

\* C11: a reference with neither a ":tag" nor an "@digest" suffix parses to
\* tagOrDigest "latest", and every successful parse has a non-empty registry
\* and a non-empty tagOrDigest.
C11_LatestAndNonEmpty ==
    (ppc = "parsed" /\ parsed.err = Nil) =>
        /\ HasNoSuffix => parsed.tag = Latest
        /\ parsed.registry # <<>>
        /\ parsed.tag # <<>>

\* a reference with a host and no suffix was parsed
C11_Witness ==
    /\ ppc = "parsed"
    /\ parsed.err = Nil
    /\ HasNoSuffix
    /\ parsed.registry = <<"a", ".", "a">>
    /\ parsed.tag = Latest


---------------------------------------------------------------------------
\* Properties of GetImageDigests

\* Resolve fetched the root manifest and it is a Docker manifest list
ResolvedList ==
    /\ Resolved
    /\ remote.fetch[RootRef] = "ok"
    /\ RootManifest.mediaType = MediaTypeDockerManifestList

\* the positions of the manifest list whose child GetImageDigests accepts
AcceptedPositions ==
    {i \in DOMAIN RootManifest.manifests :
        ChildIsImageManifest(RootManifest.manifests[i]) /\ ChildHasImageConfig(i)}

\* the k-th accepted position, counting in the list's declared order
AcceptedPosition(k) ==
    CHOOSE i \in AcceptedPositions :
        Cardinality({j \in AcceptedPositions : j < i}) = k - 1

\* C14: for a manifest list, the sequence GetImageDigests returns lists the
\* accepted children in the list's declared order, one entry per accepted
\* child: nothing re-sorted, nothing added.
C14_ListOrderPreserved ==
    ResolvedList =>
        /\ Len(digests) = Cardinality(AcceptedPositions)
        /\ \A k \in DOMAIN digests :
              digests[k] = FormatDigest(RootManifest.manifests[AcceptedPosition(k)].digest)

\* a list of two different accepted children, the larger digest declared
\* first, was resolved
C14_Witness ==
    /\ ResolvedList
    /\ Len(RootManifest.manifests) = 2
    /\ RootManifest.manifests[1].digest.enc = "d2"
    /\ digests = <<FormatDigest(RootManifest.manifests[1].digest),
                   FormatDigest([alg |-> "sha256", enc |-> "d1"])>>

\* C16 as stated: for a manifest list, the DigestSet contains a child's
\* digest if and only if the child is a Docker or OCI image manifest whose
\* config media type is a recognized image-config media type.
C16_ValidChildrenIncluded ==
    ResolvedList =>
        \A i \in DOMAIN RootManifest.manifests :
            (/\ RootManifest.manifests[i].mediaType
                    \in {MediaTypeDockerManifest, MediaTypeOCIManifest}
             /\ ChildHasImageConfig(i))
            <=> (\E k \in DOMAIN digests :
                    digests[k] = FormatDigest(RootManifest.manifests[i].digest))

\* Resolve fetched the root manifest and it is a single manifest
ResolvedSingle ==
    /\ Resolved
    /\ remote.fetch[RootRef] = "ok"
    /\ RootManifest.mediaType \notin {MediaTypeOCIIndexManifest, MediaTypeDockerManifestList}

\* C17: for a manifest that is neither an OCI index nor a manifest list,
\* GetImageDigests returns exactly <<the input reference>> when
\* config.mediaType is a recognized image-config media type, and an error
\* with an empty result for every other config.mediaType, the empty string
\* included.
C17_SingleManifestResult ==
    ResolvedSingle =>
        IF RootManifest.config \in {MediaTypeDockerImageConfig, MediaTypeOCIImageConfig}
        THEN digests = <<RootRef>> /\ resolveErr = Nil
        ELSE digests = <<>> /\ resolveErr # Nil

\* an OCI image manifest with an OCI image config was resolved
C17_Witness ==
    /\ ResolvedSingle
    /\ RootManifest.mediaType = MediaTypeOCIManifest
    /\ RootManifest.config = MediaTypeOCIImageConfig
    /\ digests = <<RootRef>>


---------------------------------------------------------------------------
\* Properties of the loop over the DigestSet

Operations == <<"Pull", "Build", "Push">>

\* the position in the DigestSet that entry i of the run's log belongs to
DigestPosition(i) == ((i - 1) \div 3) + 1

\* C18: digests are processed strictly sequentially in DigestSet order: per
\* digest the operations are Pull, Build, Push in that order, each one
\* invoked only after the one before it succeeded, and the Pull of digest
\* i+1 only after the Push of digest i succeeded.
C18_StrictlySequential ==
    /\ Len(calls) <= 3 * Len(digests)
    /\ \A i \in DOMAIN calls :
          /\ calls[i].op = Operations[((i - 1) % 3) + 1]
          /\ calls[i].digest = digests[DigestPosition(i)]
          /\ i < Len(calls) => calls[i].err = Nil
    /\ pc \in {"Pull", "Build", "Push"} =>
          /\ \A i \in DOMAIN calls : calls[i].err = Nil
          /\ idx = DigestPosition(Len(calls) + 1)
          /\ pc = Operations[(Len(calls) % 3) + 1]

\* the second of two different digests was pushed after the first
C18_Witness ==
    /\ Len(calls) = 6
    /\ calls[6].op = "Push"
    /\ calls[6].err = Nil
    /\ calls[4].digest # calls[1].digest

\* the run returned the empty-index skip outcome
SkippedEmpty ==
    /\ pc = "Returned"
    /\ result = [msg |-> SkipPushOnEmptyIndexMessage, err |-> Nil]

\* C19 as stated: a run that ends with the empty-index skip outcome invoked
\* no Push for any digest, the digests processed before the one whose Build
\* reported the empty index included.
C19_SkipMeansNothingPushed ==
    SkippedEmpty => \A i \in DOMAIN calls : calls[i].op # "Push"

\* C19 (amended): a run that ends with the empty-index skip outcome ended on
\* the Build that reported the empty index, for the digest at position idx;
\* it invoked no Push for that position or a later one, and exactly one
\* Push, which succeeded, for each of the idx - 1 positions before it.
C19_SkipPushesOnlyEarlierDigests ==
    SkippedEmpty =>
        /\ Len(calls) = 3 * idx - 1
        /\ BuildReportedEmpty(Len(calls))
        /\ \A k \in 1..Len(digests) :
              LET pushes == {i \in DOMAIN calls :
                                calls[i].op = "Push" /\ DigestPosition(i) = k}
              IN  IF k < idx
                  THEN /\ Cardinality(pushes) = 1
                       /\ \A i \in pushes : calls[i].err = Nil
                  ELSE pushes = {}

\* the run was skipped at its second digest, the first one already pushed
C19_Witness ==
    /\ SkippedEmpty
    /\ idx = 2
    /\ calls[3].op = "Push"
    /\ calls[3].err = Nil

\* C20: the aggregate success outcome is returned only if every digest of
\* the resolved DigestSet was pulled, built and pushed successfully exactly
\* once; the DigestSet of a successful Resolve is not empty, so success
\* implies that at least one Push succeeded.
C20_SuccessMeansAllPushed ==
    (pc = "Returned" /\ result = [msg |-> BuildAndPushSuccessMessage, err |-> Nil]) =>
        /\ resolveErr = Nil
        /\ AllBuiltAndPushed
        /\ \E i \in DOMAIN calls : calls[i].op = "Push" /\ calls[i].err = Nil
        /\ \A k \in DOMAIN digests, o \in {"Pull", "Build", "Push"} :
              Cardinality({i \in DOMAIN calls :
                              calls[i].op = o /\ DigestPosition(i) = k}) = 1

\* a run over two digests returned success
C20_Witness ==
    /\ pc = "Returned"
    /\ result = [msg |-> BuildAndPushSuccessMessage, err |-> Nil]
    /\ Len(digests) = 2
    /\ Len(calls) = 6


---------------------------------------------------------------------------
\* registry.Init on its own: the registry URL and the credentials rule

MaxUrlLen == 4

\* pieces a registry URL is made of: digit runs, the ECR infix, a region or
\* host label, a space, and the AWS domain suffix
UrlTokens == {"123456789012", "123456", ".dkr.ecr.", "eu-west-1", " ", ".amazonaws.com"}

RegistryUrls == SeqsUpTo(UrlTokens, MaxUrlLen)

\* the number of digits a piece consists of, 0 when it is not a digit run
DigitCount(tok) ==
    IF tok = "123456789012" THEN 12 ELSE IF tok = "123456" THEN 6 ELSE 0

\* the length of the digit run that ends with piece i
RECURSIVE DigitsEndingAt(_, _)
DigitsEndingAt(url, i) ==
    IF i = 0 THEN 0
    ELSE IF DigitCount(url[i]) = 0 THEN 0
    ELSE DigitCount(url[i]) + DigitsEndingAt(url, i - 1)

\* isEcrRegistry: an unanchored match of
\* \d{12}\.dkr\.ecr\.\S+\.amazonaws\.com
isEcrRegistry(registryUrl) ==
    \E i \in DOMAIN registryUrl, j \in DOMAIN registryUrl :
        /\ DigitsEndingAt(registryUrl, i) >= 12
        /\ i + 1 \in DOMAIN registryUrl
        /\ registryUrl[i + 1] = ".dkr.ecr."
        /\ j > i + 2
        /\ registryUrl[j] = ".amazonaws.com"
        /\ \A k \in (i + 2)..(j - 1) : registryUrl[k] # " "

\* a call of registry.Init(ctx, registryUrl, authToken)
RegistryInitStep ==
    /\ ~handle.returned
    /\ \E urlOk \in BOOLEAN, ecrOut \in EcrOutcomes :
          LET r == RegistryInit(urlOk, initToken, isEcrRegistry(initUrl), ecrOut) IN
          handle' = [client |-> r.client, exchange |-> r.exchange, err |-> r.err,
                     returned |-> TRUE, urlOk |-> urlOk]
    /\ UNCHANGED <<initUrl, initToken, runVars, parseVars, exitCode, entryVars, concVars>>

InitRegistryInit ==
    /\ initUrl \in RegistryUrls
    /\ initToken \in AuthTokens
    /\ handle = NoHandle
    /\ artifacts = {}
    /\ tagTarget = PriorTarget
    /\ pushLog = <<>>
    /\ newTags = <<>>
    /\ pushTags = <<>>
    /\ workers = <<>>
    /\ disk = <<>>
    /\ removals = {}
    /\ exitCode = -1
    /\ desc = <<>>
    /\ parsed = NoParse
    /\ ppc = "idle"
    /\ remote = MakeRemote(MissingBlob, [r \in ChildRefs |-> MissingBlob])
    /\ pc = "NotCalled"
    /\ client = "unset"
    /\ digests = <<>>
    /\ resolveErr = Nil
    /\ fetches = <<>>
    /\ dataDir = ""
    /\ deferred = <<>>
    /\ dirsCreated = 0
    /\ removeAttempts = 0
    /\ idx = 0
    /\ calls = <<>>
    /\ result = [msg |-> "", err |-> Nil]

NextRegistryInit == RegistryInitStep

SpecRegistryInit == InitRegistryInit /\ [][NextRegistryInit]_vars

ExchangeFailures == {"no config", "call failed", "no data", "empty token"}

\* the three-way credentials rule, for a returned handle
CredentialsRule ==
    IF initToken # ""
    THEN /\ handle.client = "Basic base64(authToken)"
         /\ handle.exchange = "none"
         /\ handle.err = Nil
    ELSE IF isEcrRegistry(initUrl)
    THEN /\ handle.exchange \in EcrOutcomes
         /\ handle.err # Nil <=> handle.exchange \in ExchangeFailures
         /\ handle.client = IF handle.err = Nil THEN "Basic ecrAuthorizationToken"
                            ELSE "unset"
    ELSE /\ handle.client = "anonymous"
         /\ handle.exchange = "none"
         /\ handle.err = Nil

\* C12 as stated: Init installs a non-empty explicit token and performs no
\* token exchange, even for a host matching the cloud-registry pattern; else
\* for a matching host it performs the exchange and fails when the exchange
\* fails or returns empty data or an empty token; otherwise it installs no
\* credentials and succeeds.
C12_ThreeWayRule ==
    handle.returned => CredentialsRule

\* C12 (amended): when remote.NewRegistry rejects the registry URL, Init
\* fails with nothing installed and no exchange performed; when it accepts
\* the URL, the three-way rule holds.
C12_ThreeWayRuleForAcceptedUrl ==
    handle.returned =>
        IF handle.urlOk
        THEN CredentialsRule
        ELSE /\ handle.err # Nil
             /\ handle.client = "unset"
             /\ handle.exchange = "none"

\* Init was given an explicit token and a host that matches the pattern,
\* and installed the token without an exchange
C12_Witness ==
    /\ handle.returned
    /\ handle.urlOk
    /\ isEcrRegistry(initUrl)
    /\ initToken # ""
    /\ handle.client = "Basic base64(authToken)"
    /\ handle.exchange = "none"


---------------------------------------------------------------------------
\* main.go: the process, from its argument to its exit status

\* arguments given to the process: a bare name, a tagged name, a name with a
\* host, a name with a digest, and two that are no references
MainDescs ==
    {<<"a">>,
     <<"a", ":", "a">>,
     <<"a", ".", "a", "/", "a", ":", "a">>,
     <<"a", "@", "a", ":", "a">>,
     <<"a", ":">>,
     <<>>}

\* the registries the process is run against
MainRemotes == {r \in Remotes : Len(r.manifest[RootRef].manifests) <= 1}

\* the status the process ends with after indexAndPush returned err
MutExitStatus_AlwaysZero(err) == 0

ExitStatus(err) == IF err # Nil THEN 1 ELSE 0

\* Run, up to the call of indexAndPush: parseImageDesc and the two checks of
\* the tag
MainStartStep ==
    /\ ppc = "main"
    /\ LET p == parseImageDesc(desc) IN
          /\ parsed' = p
          /\ IF p.err # Nil \/ Contains(p.tag, <<":">>) \/ p.tag = <<>>
             THEN /\ exitCode' = 1
                  /\ ppc' = "exited"
                  /\ UNCHANGED <<pc, pushTags>>
             ELSE /\ pc' = "Init"
                  /\ ppc' = "called"
                  /\ pushTags' = <<IF newTags = <<>> THEN p.tag ELSE newTags[1]>>
                  /\ UNCHANGED exitCode
    /\ UNCHANGED <<remote, client, digests, resolveErr, fetches, dataDir, deferred,
                   dirsCreated, removeAttempts, idx, calls, result>>
    /\ UNCHANGED <<desc, newTags, initVars, registryVars, concVars>>

\* Run, after indexAndPush returned, and the return of main
MainExitStep ==
    /\ ppc = "called"
    /\ pc = "Returned"
    /\ exitCode' = ExitStatus(result.err)
    /\ ppc' = "exited"
    /\ UNCHANGED <<desc, parsed, runVars, initVars, entryVars, concVars>>

InitMain ==
    /\ desc \in MainDescs
    /\ parsed = NoParse
    /\ ppc = "main"
    /\ exitCode = -1
    /\ remote \in MainRemotes
    /\ pc = "NotCalled"
    /\ client = "unset"
    /\ digests = <<>>
    /\ resolveErr = Nil
    /\ fetches = <<>>
    /\ dataDir = ""
    /\ deferred = <<>>
    /\ dirsCreated = 0
    /\ removeAttempts = 0
    /\ idx = 0
    /\ calls = <<>>
    /\ result = [msg |-> "", err |-> Nil]
    /\ initUrl = <<>>
    /\ initToken = ""
    /\ handle = NoHandle
    /\ artifacts = {}
    /\ tagTarget = PriorTarget
    /\ pushLog = <<>>
    /\ newTags = <<>>
    /\ pushTags = <<>>
    /\ workers = <<>>
    /\ disk = <<>>
    /\ removals = {}

NextMain ==
    \/ MainStartStep
    \/ InitStep
    \/ ResolveStep
    \/ CreateTempDirStep
    \/ InitSociStoreStep
    \/ PullStep
    \/ BuildStep
    \/ PushStep
    \/ MainExitStep

SpecMain == InitMain /\ [][NextMain]_vars

\* the reference was rejected before indexAndPush was called
RejectedAtInput ==
    /\ pc = "NotCalled"
    /\ \/ parsed.err # Nil
       \/ \E i \in DOMAIN parsed.tag : parsed.tag[i] = ":"
       \/ parsed.tag = <<>>

\* C13: the process exits with a non-zero status exactly when the reference
\* is rejected at input (parse error or tag check) or indexAndPush returns a
\* non-nil error; a run that built and pushed and a run that was benignly
\* skipped both exit with status zero.
C13_ExitStatus ==
    ppc = "exited" =>
        /\ exitCode \in {0, 1}
        /\ exitCode # 0 <=> (RejectedAtInput \/ (pc = "Returned" /\ result.err # Nil))
        /\ (pc = "Returned"
              /\ result.msg \in {BuildAndPushSuccessMessage, SkipPushOnEmptyIndexMessage,
                                 ManifestValidationMessage})
           => exitCode = 0

\* a process whose run was skipped on an empty index has exited with zero
C13_Witness ==
    /\ ppc = "exited"
    /\ exitCode = 0
    /\ result.msg = SkipPushOnEmptyIndexMessage
    /\ calls # <<>>


---------------------------------------------------------------------------
\* handler.go: several runs of indexAndPush in one process, from the
\* creation of the workspace on (Init and Resolve touch no workspace)

NumRuns == 2

Runs == 1..NumRuns

\* the names os.MkdirTemp("", "soci") can give a directory
DirNames == {"/tmp/soci1", "/tmp/soci2", "/tmp/soci3"}

\* os.MkdirTemp: a name under which no directory exists
MutMkdirTemp_FixedName(existing) == {"/tmp/soci1"}

MkdirTemp(existing) == DirNames \ existing

\* what a step of a run can answer besides success
StepErrors == {Nil, NewError("io", <<"input/output error">>)}

\* run r writes into, or reads from, the directory dir
Touch(dir, r) == [disk EXCEPT ![dir].users = @ \cup {r}]

\* the return of run r from a state of the disk: the deferred
\* cleanUp(ctx, dataDir), one os.RemoveAll whose failure is only logged
WorkerReturn(r, before) ==
    LET dir == workers[r].dataDir IN
    \E rmOk \in BOOLEAN :
        /\ workers' = [workers EXCEPT ![r].pc = "Returned"]
        /\ removals' = removals \cup
              {[by |-> r, dir |-> dir,
                creator |-> IF dir \in DOMAIN before THEN before[dir].creator ELSE 0]}
        /\ disk' = IF rmOk THEN [d \in DOMAIN before \ {dir} |-> before[d]] ELSE before

\* createTempDir, its error branch, and defer cleanUp
WorkerCreateTempDir(r) ==
    /\ workers[r].pc = "CreateTempDir"
    /\ \E err \in MkdirErrors :
          IF err # Nil
          THEN /\ workers' = [workers EXCEPT ![r].pc = "Returned"]
               /\ UNCHANGED <<disk, removals>>
          ELSE \E dir \in MkdirTemp(DOMAIN disk) :
                  /\ workers' = [workers EXCEPT ![r] = [pc |-> "InitSociStore",
                                                        dataDir |-> dir]]
                  /\ disk' = [d \in DOMAIN disk \cup {dir} |->
                                 IF d \in DOMAIN disk THEN disk[d]
                                 ELSE [creator |-> r, users |-> {}]]
                  /\ UNCHANGED removals
    /\ UNCHANGED <<runVars, parseVars, exitCode, initVars, entryVars>>

\* a step of run r that works under path.Join(dataDir, ...): initSociStore,
\* Pull into the store, buildIndex with its artifacts db and content store,
\* Push out of the store
WorkerStep(r, at, next) ==
    /\ workers[r].pc = at
    /\ \E err \in StepErrors :
          IF err # Nil
          THEN WorkerReturn(r, disk)
          ELSE IF next = "Returned"
          THEN WorkerReturn(r, Touch(workers[r].dataDir, r))
          ELSE /\ workers' = [workers EXCEPT ![r].pc = next]
               /\ disk' = Touch(workers[r].dataDir, r)
               /\ UNCHANGED removals
    /\ UNCHANGED <<runVars, parseVars, exitCode, initVars, entryVars>>

WorkerInitSociStore(r) == WorkerStep(r, "InitSociStore", "Pull")

WorkerPull(r) == WorkerStep(r, "Pull", "Build")

WorkerBuild(r) == WorkerStep(r, "Build", "Push")

WorkerPush(r) == WorkerStep(r, "Push", "Returned")


NoWorker == [pc |-> "CreateTempDir", dataDir |-> ""]

InitConcurrent ==
    /\ workers = [r \in Runs |-> NoWorker]
    /\ disk = [d \in {} |-> [creator |-> 0, users |-> {}]]
    /\ removals = {}
    /\ remote = MakeRemote(MissingBlob, [r \in ChildRefs |-> MissingBlob])
    /\ pc = "NotCalled"
    /\ client = "unset"
    /\ digests = <<>>
    /\ resolveErr = Nil
    /\ fetches = <<>>
    /\ dataDir = ""
    /\ deferred = <<>>
    /\ dirsCreated = 0
    /\ removeAttempts = 0
    /\ idx = 0
    /\ calls = <<>>
    /\ result = [msg |-> "", err |-> Nil]
    /\ artifacts = {}
    /\ tagTarget = PriorTarget
    /\ pushLog = <<>>
    /\ desc = <<>>
    /\ parsed = NoParse
    /\ ppc = "idle"
    /\ exitCode = -1
    /\ initUrl = <<>>
    /\ initToken = ""
    /\ handle = NoHandle
    /\ newTags = <<>>
    /\ pushTags = <<>>

NextConcurrent ==
    \E r \in Runs :
        \/ WorkerCreateTempDir(r)
        \/ WorkerInitSociStore(r)
        \/ WorkerPull(r)
        \/ WorkerBuild(r)
        \/ WorkerPush(r)

SpecConcurrent == InitConcurrent /\ [][NextConcurrent]_vars

\* run r holds a workspace: it created one and has not returned
HoldsWorkspace(r) == workers[r].pc \notin {"CreateTempDir", "Returned"}

\* C21: concurrent runs of indexAndPush never share a workspace: runs that
\* hold a workspace at the same time hold different directories, a directory
\* is written and read only by the run that created it, and a run's cleanup
\* removes only the directory that run created.
C21_WorkspacesNotShared ==
    /\ \A r1 \in DOMAIN workers, r2 \in DOMAIN workers :
          (r1 # r2 /\ HoldsWorkspace(r1) /\ HoldsWorkspace(r2)) =>
              workers[r1].dataDir # workers[r2].dataDir
    /\ \A r \in DOMAIN workers :
          HoldsWorkspace(r) =>
              /\ workers[r].dataDir \in DOMAIN disk
              /\ disk[workers[r].dataDir].creator = r
    /\ \A d \in DOMAIN disk : disk[d].users \subseteq {disk[d].creator}
    /\ \A m \in removals : m.by = m.creator

\* two runs hold workspaces at the same time, one about to push and one
\* about to build, each directory written by its own run only
C21_Witness ==
    /\ workers # <<>>
    /\ workers[1].pc = "Push"
    /\ workers[2].pc = "Build"
    /\ disk[workers[1].dataDir].users = {1}
    /\ disk[workers[2].dataDir].users = {2}


---------------------------------------------------------------------------
\* Properties of the pushes and of the target tag

\* C22: the push applies the tag only after the graph copy rooted at the
\* artifact has completed: when the push returns success the tag refers to
\* the pushed root, and when the graph copy fails, with the capability error
\* or another one, the tag is neither created nor moved.
C22_TagOnlyAfterCopy ==
    /\ \A i \in DOMAIN pushLog :
          LET p == pushLog[i] IN
          /\ p.err = Nil => (p.copied /\ p.after = p.root)
          /\ ~p.copied => (p.err # Nil /\ p.after = p.before)
          /\ p.after # p.before => (p.copied /\ p.root \in artifacts)
    /\ pushLog # <<>> => tagTarget = pushLog[Len(pushLog)].after

\* a second push was refused with the capability error after a first one
\* was copied and tagged: the tag still refers to the first root
C22_Witness ==
    /\ Len(pushLog) = 2
    /\ pushLog[1].err = Nil
    /\ pushLog[2].root # pushLog[1].root
    /\ pushLog[2].err = RegistryNotSupportingOciArtifacts
    /\ tagTarget = pushLog[1].root

\* the run returned the aggregate success outcome
Succeeded ==
    /\ pc = "Returned"
    /\ result = [msg |-> BuildAndPushSuccessMessage, err |-> Nil]

\* C24: in a successful run over more than one digest every index is pushed
\* under the same tag, so the pushes retag in DigestSet order: afterwards
\* the tag refers to the index of the last digest only, and the indexes of
\* the earlier digests are in the repository but not under that tag.
C24_TagRefersToLastIndex ==
    (Succeeded /\ Len(digests) > 1) =>
        /\ Len(pushLog) = Len(digests)
        /\ \A k \in DOMAIN pushLog :
              /\ pushLog[k].root = IndexArtifact(digests[k])
              /\ pushLog[k].after = pushLog[k].root
              /\ pushLog[k].before = IF k = 1 THEN PriorTarget ELSE pushLog[k - 1].root
        /\ tagTarget = IndexArtifact(digests[Len(digests)])
        /\ \A k \in 1..(Len(digests) - 1) :
              /\ IndexArtifact(digests[k]) \in artifacts
              /\ digests[k] # digests[Len(digests)] =>
                    tagTarget # IndexArtifact(digests[k])

\* a run over two different digests succeeded
C24_Witness ==
    /\ Succeeded
    /\ Len(digests) = 2
    /\ digests[1] # digests[2]
    /\ tagTarget = IndexArtifact(digests[2])
    /\ IndexArtifact(digests[1]) \in artifacts


---------------------------------------------------------------------------
\* The entry point's variants, up to the call of indexAndPush

MaxEntryLen == 5

EntryDescs == SeqsUpTo(Alphabet, MaxEntryLen)

\* values of --new-tag: not given, or one plain tag
NewTagInputs == {<<>>, << <<"a">> >>}

\* Run of the variant with a list of new tags and the tag check that a new
\* tag lifts
MainStartStepNewTags ==
    /\ ppc = "main"
    /\ LET p == parseImageDesc(desc) IN
          /\ parsed' = p
          /\ IF \/ p.err # Nil
                \/ (Contains(p.tag, <<":">>) /\ Len(newTags) = 0)
                \/ p.tag = <<>>
             THEN /\ exitCode' = 1
                  /\ ppc' = "exited"
                  /\ UNCHANGED <<pc, pushTags>>
             ELSE /\ pc' = "Init"
                  /\ ppc' = "called with new tags"
                  /\ pushTags' = IF Len(newTags) = 0 THEN <<p.tag>> ELSE newTags
                  /\ UNCHANGED exitCode
    /\ UNCHANGED <<remote, client, digests, resolveErr, fetches, dataDir, deferred,
                   dirsCreated, removeAttempts, idx, calls, result>>
    /\ UNCHANGED <<desc, newTags, initVars, registryVars, concVars>>

\* Run of the variant without tag checks: the parsed tag is the tag
\* indexAndPush resolves and pushes under
MainStartStepUnchecked ==
    /\ ppc = "main"
    /\ LET p == parseImageDesc(desc) IN
          /\ parsed' = p
          /\ IF p.err # Nil
             THEN /\ exitCode' = 1
                  /\ ppc' = "exited"
                  /\ UNCHANGED <<pc, pushTags>>
             ELSE /\ pc' = "Init"
                  /\ ppc' = "called unchecked"
                  /\ pushTags' = <<p.tag>>
                  /\ UNCHANGED exitCode
    /\ UNCHANGED <<remote, client, digests, resolveErr, fetches, dataDir, deferred,
                   dirsCreated, removeAttempts, idx, calls, result>>
    /\ UNCHANGED <<desc, newTags, initVars, registryVars, concVars>>

InitEntry ==
    /\ desc \in EntryDescs
    /\ newTags \in NewTagInputs
    /\ pushTags = <<>>
    /\ parsed = NoParse
    /\ ppc = "main"
    /\ exitCode = -1
    /\ remote = MakeRemote(MissingBlob, [r \in ChildRefs |-> MissingBlob])
    /\ pc = "NotCalled"
    /\ client = "unset"
    /\ digests = <<>>
    /\ resolveErr = Nil
    /\ fetches = <<>>
    /\ dataDir = ""
    /\ deferred = <<>>
    /\ dirsCreated = 0
    /\ removeAttempts = 0
    /\ idx = 0
    /\ calls = <<>>
    /\ result = [msg |-> "", err |-> Nil]
    /\ artifacts = {}
    /\ tagTarget = PriorTarget
    /\ pushLog = <<>>
    /\ initUrl = <<>>
    /\ initToken = ""
    /\ handle = NoHandle
    /\ workers = <<>>
    /\ disk = <<>>
    /\ removals = {}

NextEntry ==
    \/ MainStartStep
    \/ MainStartStepNewTags
    \/ MainStartStepUnchecked

SpecEntry == InitEntry /\ [][NextEntry]_vars

\* an entry point has called indexAndPush
EntryCalled == {"called", "called with new tags", "called unchecked"}

\* the parsed tagOrDigest is a digest, "algorithm:hex"
IsDigestForm(t) == \E i \in DOMAIN t : t[i] = ":"

\* C23 as stated: when the parsed tagOrDigest has the digest form, the entry
\* point never passes it as a tag to push the index under: it exits before
\* calling indexAndPush, or pushes only under the new tags it was given.
C23_DigestNeverPushTag ==
    (ppc \in EntryCalled /\ IsDigestForm(parsed.tag)) =>
        /\ Len(newTags) > 0
        /\ pushTags = newTags
        /\ \A i \in DOMAIN pushTags : pushTags[i] # parsed.tag

=============================================================================
